---- MODULE Spec2Model ----
(***************************************************************************)
(* Content-lifecycle state machine of twitter_autobot: the draft store     *)
(* (src/database.py), the batch job (src/api/cron.py) and the confirm      *)
(* handler (src/main.py).  Every store call of a handler is one step, so   *)
(* that concurrent requests interleave between the calls.                  *)
(***************************************************************************)
EXTENDS Integers, Sequences, FiniteSets, TLC

\* ------------------------------------------------------------- bounds
MaxRequests == 2    \* confirm requests ever received
MaxRuns == 1        \* runs of the batch job
MaxOver == 3        \* how far beyond the length limit a generated text goes
MaxWeb == 2         \* requests to the account routes ever received

\* ------------------------------------------------------------- domains
Users == {"u1", "u2"}
UserOrder == <<"u1", "u2">>         \* row order of SELECT * FROM users
Requests == 1 .. MaxRequests
NULL == "NULL"
Emails == {NULL, "a@b.c"}
TopicTexts == {NULL, "[]", "[\"AI\"]", "[1]"}

Pending == "pending_confirmation"
Posted == "posted"
FailedToPost == "failed_to_post"
FailedUserInactive == "failed_user_inactive"
Terminal == {Posted, FailedToPost, FailedUserInactive}

\* texts post_tweet returns with success = False, as sequences of phrases
Phrase403 == "403 Forbidden"
PhraseNotPermitted == "You are not permitted to perform this action"
TweepyErrors ==
    { <<Phrase403>>, <<PhraseNotPermitted, "453">>, <<"duplicate content">> }

PostErrors == { <<"Twitter error:">> \o e : e \in TweepyErrors }

\* what happens inside post_tweet: the API keys are missing, or
\* client.create_tweet returns the data of the tweet, returns a response
\* without data, raises a TweepyException, or raises another exception
NoCall == [kind |-> "none", text |-> <<>>]

ClientCalls ==
    {[kind |-> "data", text |-> <<>>], [kind |-> "no_keys", text |-> <<>>],
     [kind |-> "errors", text |-> <<"Unknown error">>]}
        \cup {[kind |-> "tweepy", text |-> e] : e \in TweepyErrors}
        \cup {[kind |-> "exception", text |-> <<"boom">>]}

VARIABLES
    users,        \* users table: id -> row
    drafts,       \* ai_generated_content_history: sequence of rows, id = index
    issued,       \* number of confirmation tokens issued by uuid4 so far
    batch,        \* the running batch job: phase, remaining rows, current token
    bh,           \* history of the current batch run
    confirmMail,  \* confirmation emails handed to send_email
    req,          \* confirm requests in flight: position, lookup result, effects
    ret,          \* the confirm request that returned last, with all it did
    received,     \* number of confirm requests received so far
    hist,         \* per draft id: post_tweet calls, status changes, requests returned
    edges,        \* every status change a draft has undergone: <<from, to>>
    storeFaulty,  \* whether the store can reject a write in this run
    cron,         \* the batch-trigger endpoint: its configuration, its last request
    crew,         \* a call of crew.kickoff: its inputs, its position, its result
    accounts,     \* users table with all its columns: sequence of rows, id = index
    backend,      \* the store in use: "postgres" or "sqlite"
    sessions,     \* per browser: the Flask session (user_db_id, pending_email)
    web,          \* requests to the account routes: number received, calls in flight
    reply         \* the response of the account route that returned last

\* the state of the routes that take no part in a draft's life
site == <<accounts, backend, sessions, web, reply>>

aux == <<cron, crew, site>>

vars == <<users, drafts, issued, batch, bh, confirmMail, req, ret, received,
          hist, edges, storeFaulty, aux>>

\* outcomes a store write can have: committed, or an error caught inside the
\* data-access function (which then returns False / None)
WriteOutcomes == IF storeFaulty THEN {TRUE, FALSE} ELSE {TRUE}

\* ------------------------------------------------------------- draft store
NoRecord == [found |-> FALSE]

\* faulty variant: a lookup that falls back to the oldest draft when no row
\* carries the token
LookupWithFallback(token) ==
    LET hits == {i \in 1 .. Len(drafts) : drafts[i].confirmation_token = token}
        i == IF hits # {} THEN CHOOSE j \in hits : TRUE ELSE 1
    IN  IF drafts = <<>> THEN NoRecord
        ELSE [found |-> TRUE, id |-> i,
              status |-> drafts[i].status,
              user_email |-> users[drafts[i].user_id].email,
              user_is_active |-> users[drafts[i].user_id].is_active]

get_content_by_confirmation_token(token) ==
    LET hits == {i \in 1 .. Len(drafts) : drafts[i].confirmation_token = token}
    IN  IF hits = {} THEN NoRecord
        ELSE LET i == CHOOSE j \in hits : TRUE
             IN  [found |-> TRUE, id |-> i,
                  status |-> drafts[i].status,
                  user_email |-> users[drafts[i].user_id].email,
                  user_is_active |-> users[drafts[i].user_id].is_active]

\* faulty variant: the token is cleared with the status write, as a
\* single-use token would be
UpdateClearingToken(rows, id, status, posted_at) ==
    [rows EXCEPT ![id] =
        IF posted_at
        THEN [@ EXCEPT !.status = status, !.posted_at = TRUE, !.confirmation_token = 0]
        ELSE [@ EXCEPT !.status = status, !.confirmation_token = 0]]

update_content_status(rows, id, status, posted_at) ==
    [rows EXCEPT ![id] =
        IF posted_at
        THEN [@ EXCEPT !.status = status, !.posted_at = TRUE]
        ELSE [@ EXCEPT !.status = status]]

\* faulty variant: the confirmation_token column without its UNIQUE constraint
TokenUnchecked(rows, token) == TRUE

\* confirmation_token ... UNIQUE: the INSERT is rejected when a row holds the token
TokenFree(rows, token) ==
    \A i \in 1 .. Len(rows) : rows[i].confirmation_token # token

add_generated_content(rows, user_id, generated_content, status, token) ==
    Append(rows, [user_id |-> user_id, generated_content |-> generated_content,
                  status |-> status,
                  confirmation_token |-> token, posted_at |-> FALSE])

\* faulty variant: the row is emptied instead of flagged (a hard delete)
SetStatusByDeleting(tbl, user_id, is_active) ==
    [tbl EXCEPT ![user_id] = [is_active |-> FALSE, email |-> "NULL", topics |-> "NULL"]]

set_user_active_status(tbl, user_id, is_active) ==
    [tbl EXCEPT ![user_id].is_active = is_active]

\* faulty variant: the is_active column is left out of the WHERE clause
IsEligibleIgnoringActive(row) ==
    row.topics # NULL /\ row.topics # "" /\ row.topics # "[]"

IsEligible(row) ==
    row.is_active /\ row.topics # NULL /\ row.topics # "" /\ row.topics # "[]"

RECURSIVE SelectRows(_, _)
SelectRows(order, tbl) ==
    IF order = <<>> THEN <<>>
    ELSE LET u == Head(order)
             rest == SelectRows(Tail(order), tbl)
         IN  IF IsEligible(tbl[u])
             THEN <<[id |-> u, email |-> tbl[u].email, topics |-> tbl[u].topics]>> \o rest
             ELSE rest

get_active_users_with_topics == SelectRows(UserOrder, users)

\* the status write of a handler, with the change it makes recorded in edges
StatusWrite(id, status, posted_at, ok) ==
    IF ok
    THEN /\ drafts' = update_content_status(drafts, id, status, posted_at)
         /\ edges' = IF drafts[id].status # status
                     THEN edges \cup {<<drafts[id].status, status>>}
                     ELSE edges
    ELSE UNCHANGED <<drafts, edges>>

\* what a request remembers of a status write: the status it asked for and the
\* status the row holds once update_content_status has returned
WriteEntry(id, status) == [status |-> status, stored |-> drafts'[id].status]

\* ------------------------------------------------------------- collaborators
\* uuid.uuid4(): a token drawn at random, taken as new; a run in which the
\* environment misbehaves also considers the draw of a token issued before
Uuid4Outcomes == IF storeFaulty THEN 1 .. issued + 1 ELSE {issued + 1}

\* json.loads of a stored topics text (only texts json.dumps can have written)
json_loads(text) ==
    CASE text = "[]" -> <<>>
      [] text = "[\"AI\"]" -> <<"AI">>
      [] text = "[1]" -> <<"#1">>          \* a list holding a non-string
      [] text = "{}" -> <<>>               \* falsy like the empty list
      [] OTHER -> <<>>

IsStr(x) == x # "#1"

\* crew.kickoff: ", ".join(user_topics) raises on a non-string element, in the
\* provider path and again in the fallback called from the except clause, so the
\* exception leaves kickoff; otherwise it returns a text, which is empty when
\* the provider's response strips to ''
KickoffOutcomes(topics_list) ==
    IF \E i \in 1 .. Len(topics_list) : ~IsStr(topics_list[i])
    THEN {"raise"}
    ELSE {"text", "empty"}

\* render_template: returns the html or raises (TemplateNotFound, ...)
RenderOutcomes == {"html", "raise"}

\* "needle in error_msg", on texts given as sequences of phrases
Contains(msg, phrase) == \E i \in 1 .. Len(msg) : msg[i] = phrase

\* faulty variant: only the first of the two phrases is looked for
IsPermissionError403Only(error_msg) == Contains(error_msg, Phrase403)

IsPermissionError(error_msg) ==
    Contains(error_msg, Phrase403) \/ Contains(error_msg, PhraseNotPermitted)

\* faulty variant: the text of an unexpected exception is left out of the result
PostTweetWithoutText(call) ==
    CASE call.kind = "data" -> <<"ok">>
      [] call.kind = "no_keys" -> <<"Twitter API credentials not configured.">>
      [] call.kind = "errors" -> call.text
      [] call.kind = "tweepy" -> <<"Twitter error:">> \o call.text
      [] OTHER -> <<"An unexpected error occurred:">>

\* twitter_service.post_tweet: (True, data) is <<"ok">>, (False, text) is the
\* text; no exception leaves the function
post_tweet(call) ==
    CASE call.kind = "data" -> <<"ok">>
      [] call.kind = "no_keys" -> <<"Twitter API credentials not configured.">>
      [] call.kind = "errors" -> call.text
      [] call.kind = "tweepy" -> <<"Twitter error:">> \o call.text
      [] OTHER -> <<"An unexpected error occurred:">> \o call.text

\* ------------------------------------------------------------- confirm handler
Flash(kind, arg) == [kind |-> kind, arg |-> arg]

IdleRequest ==
    [pc |-> "idle", token |-> 0, rec |-> NoRecord, nth |-> 0, success |-> FALSE,
     post_data |-> <<>>, pubs |-> 0, writes |-> <<>>, mails |-> 0,
     notify |-> "none", flashes |-> <<>>, call |-> NoCall]

\* faulty variant: the owner's is_active flag is not looked at
BranchIgnoringActive(rec) ==
    IF ~rec.found THEN "invalid"
    ELSE IF rec.status # Pending THEN "already"
    ELSE "post"

\* faulty variant: the status of the draft is not looked at
BranchIgnoringStatus(rec) ==
    IF ~rec.found THEN "invalid"
    ELSE IF ~rec.user_is_active THEN "inactive"
    ELSE "post"

\* lines 286-297: what the handler does with the lookup's result
Branch(rec) ==
    IF ~rec.found THEN "invalid"
    ELSE IF rec.status # Pending THEN "already"
    ELSE IF ~rec.user_is_active THEN "inactive"
    ELSE "post"

\* history kept per draft
Published(h, id) == [h EXCEPT ![id].pubs = @ + 1]

Changed(h, id, status, ok) ==
    IF ok /\ drafts[id].status # status THEN [h EXCEPT ![id].changes = @ + 1] ELSE h

Served(h, rec, already) ==
    IF rec.found
    THEN [h EXCEPT ![rec.id].returned = @ + 1,
                   ![rec.id].served = @ + (IF already THEN 0 ELSE 1)]
    ELSE h

\* line 338 and the early returns: the handler returns its redirect; what the
\* request did is kept in ret and its slot is free again
Return(r, final) ==
    /\ req' = [req EXCEPT ![r] = IdleRequest]
    /\ ret' = [final EXCEPT !.pc = "returned"]

\* lines 284-295: lookup, the two early returns, the flash of the inactive case
ConfirmLookup(r, t) ==
    /\ req[r].pc = "idle"
    /\ \A q \in Requests : q < r => req[q].pc # "idle"
    /\ received < MaxRequests
    /\ received' = received + 1
    /\ LET rec == get_content_by_confirmation_token(t)
           b == Branch(rec)
           seen == [req[r] EXCEPT !.token = t, !.rec = rec,
                        !.nth = IF rec.found THEN hist[rec.id].returned + 1 ELSE 0]
       IN  CASE b = "invalid" ->
                    /\ Return(r, [seen EXCEPT !.flashes = <<Flash("invalid", <<>>)>>])
                    /\ hist' = Served(hist, rec, FALSE)
             [] b = "already" ->
                    /\ Return(r, [seen EXCEPT
                            !.flashes = <<Flash("already", <<rec.status>>)>>])
                    /\ hist' = Served(hist, rec, TRUE)
             [] b = "inactive" ->
                    /\ req' = [req EXCEPT ![r] =
                            [seen EXCEPT !.pc = "inactive_write",
                                !.flashes = <<Flash("inactive", <<>>)>>]]
                    /\ UNCHANGED <<ret, hist>>
             [] OTHER ->
                    /\ req' = [req EXCEPT ![r] = [seen EXCEPT !.pc = "post"]]
                    /\ UNCHANGED <<ret, hist>>
    /\ UNCHANGED <<users, drafts, issued, batch, bh, confirmMail, edges, storeFaulty, aux>>

\* lines 296-297
ConfirmInactiveWrite(r, ok) ==
    /\ req[r].pc = "inactive_write"
    /\ StatusWrite(req[r].rec.id, FailedUserInactive, FALSE, ok)
    /\ Return(r, [req[r] EXCEPT
            !.writes = Append(@, WriteEntry(req[r].rec.id, FailedUserInactive))])
    /\ hist' = Served(Changed(hist, req[r].rec.id, FailedUserInactive, ok),
                      req[r].rec, FALSE)
    /\ UNCHANGED <<users, issued, batch, bh, confirmMail, received, storeFaulty, aux>>

\* lines 300-304: post_tweet returns (True, data) or (False, text)
ConfirmPost(r, call) ==
    /\ req[r].pc = "post"
    /\ hist' = Published(hist, req[r].rec.id)
    /\ req' = [req EXCEPT ![r] =
            [@ EXCEPT !.pc = "after_post", !.pubs = @ + 1,
                !.call = call,
                !.success = (post_tweet(call) = <<"ok">>),
                !.post_data = post_tweet(call)]]
    /\ UNCHANGED <<users, drafts, issued, batch, bh, confirmMail, ret, edges,
                   received, storeFaulty, aux>>

\* lines 306-311
ConfirmPostedWrite(r, ok) ==
    /\ req[r].pc = "after_post"
    /\ req[r].success
    /\ StatusWrite(req[r].rec.id, Posted, TRUE, ok)
    /\ LET now == [req[r] EXCEPT
                    !.writes = Append(@, WriteEntry(req[r].rec.id, Posted)),
                    !.flashes = Append(@, Flash("posted", <<>>))]
       IN  IF req[r].rec.user_email # NULL
           THEN /\ req' = [req EXCEPT ![r] = [now EXCEPT !.pc = "email"]]
                /\ hist' = Changed(hist, req[r].rec.id, Posted, ok)
                /\ UNCHANGED ret
           ELSE /\ Return(r, now)
                /\ hist' = Served(Changed(hist, req[r].rec.id, Posted, ok),
                                  req[r].rec, FALSE)
    /\ UNCHANGED <<users, issued, batch, bh, confirmMail, received, storeFaulty, aux>>

\* faulty variant: the exception of the notifier leaves the handler
NotifierExceptionUnhandled == "crashed"

\* line 333: the try block of the publish step holds the notifier too, so its
\* except clause is where an exception of the notifier goes
OnNotifierException == "except"

\* lines 312-323: render the mail (may raise into line 333), hand it to
\* send_email, whose result is dropped
ConfirmEmail(r, render, sent) ==
    /\ req[r].pc = "email"
    /\ IF render = "raise"
       THEN /\ req' = [req EXCEPT ![r] =
                    [@ EXCEPT !.pc = OnNotifierException, !.notify = "render_error"]]
            /\ UNCHANGED <<ret, hist>>
       ELSE /\ Return(r, [req[r] EXCEPT !.mails = @ + 1,
                    !.notify = IF sent THEN "sent" ELSE "send_failed"])
            /\ hist' = Served(hist, req[r].rec, FALSE)
    /\ UNCHANGED <<users, drafts, issued, batch, bh, confirmMail, edges, received,
                   storeFaulty, aux>>

\* lines 324-331
ConfirmFailedWrite(r, ok) ==
    /\ req[r].pc = "after_post"
    /\ ~req[r].success
    /\ StatusWrite(req[r].rec.id, FailedToPost, FALSE, ok)
    /\ Return(r, [req[r] EXCEPT
            !.writes = Append(@, WriteEntry(req[r].rec.id, FailedToPost)),
            !.flashes = Append(@,
                IF IsPermissionError(req[r].post_data)
                THEN Flash("failed_permissions", req[r].post_data)
                ELSE Flash("failed_other", req[r].post_data))])
    /\ hist' = Served(Changed(hist, req[r].rec.id, FailedToPost, ok), req[r].rec, FALSE)
    /\ UNCHANGED <<users, issued, batch, bh, confirmMail, received, storeFaulty, aux>>

\* lines 333-336
ConfirmExcept(r, ok) ==
    /\ req[r].pc = "except"
    /\ StatusWrite(req[r].rec.id, FailedToPost, FALSE, ok)
    /\ Return(r, [req[r] EXCEPT
            !.writes = Append(@, WriteEntry(req[r].rec.id, FailedToPost)),
            !.flashes = Append(@, Flash("failed_other", <<"exception">>))])
    /\ hist' = Served(Changed(hist, req[r].rec.id, FailedToPost, ok), req[r].rec, FALSE)
    /\ UNCHANGED <<users, issued, batch, bh, confirmMail, received, storeFaulty, aux>>

\* ------------------------------------------------------------- batch job
NoHistory == [pubs |-> 0, changes |-> 0, served |-> 0, returned |-> 0]

IdleBatch == [phase |-> "idle", queue |-> <<>>, token |-> 0]

\* what crew.kickoff was called with for a row: not called, called with a
\* list of topics, called with no argument
NotCalled == [called |-> FALSE, given |-> FALSE, topics |-> <<>>]
CalledWith(topics_list) == [called |-> TRUE, given |-> TRUE, topics |-> topics_list]
CalledBare == [called |-> TRUE, given |-> FALSE, topics |-> <<>>]

FreshHistory(runs) ==
    [runs |-> runs, enumerated |-> {},
     proc |-> [u \in Users |-> 0],
     out |-> [u \in Users |-> "todo"],
     tok |-> [u \in Users |-> 0],
     mail |-> [u \in Users |-> "none"],
     arg |-> [u \in Users |-> NotCalled],
     snap |-> users]                \* the users table as line 50 reads it

\* line 53: the loop goes on with the rest of the rows, also after line 100
\* has caught an exception of the current one
NextRows(queue) == Tail(queue)

Advance(queue) ==
    [phase |-> IF NextRows(queue) = <<>> THEN "idle" ELSE "user",
     queue |-> NextRows(queue), token |-> 0]

\* faulty variant: the exception of one row ends the run
AbortRun(queue) == IdleBatch

\* lines 100-101: the exception of one row is logged inside the loop, which
\* goes on with the next row
OnUserException(queue) == Advance(queue)

Processed(u, outcome, token) ==
    [bh EXCEPT !.proc[u] = @ + 1, !.out[u] = outcome, !.tok[u] = token]

Generates(h, u, arg) == [h EXCEPT !.arg[u] = arg]

\* lines 49-51
StartRun ==
    LET rows == get_active_users_with_topics
    IN  /\ batch' = [phase |-> IF rows = <<>> THEN "idle" ELSE "user",
                     queue |-> rows, token |-> 0]
        /\ bh' = [FreshHistory(bh.runs + 1) EXCEPT
                     !.enumerated = {rows[i].id : i \in 1 .. Len(rows)}]

\* the job called directly
BatchStart ==
    /\ batch.phase = "idle"
    /\ bh.runs < MaxRuns
    /\ StartRun
    /\ UNCHANGED <<users, drafts, issued, confirmMail, req, ret, received, hist,
                   edges, storeFaulty, aux>>

\* lines 54-70 for the row at the head of the queue
BatchUser(gen, token, ok) ==
    /\ batch.phase = "user"
    /\ cron.job = "api"
    /\ LET user == Head(batch.queue)
           topics_list == IF user.topics # NULL THEN json_loads(user.topics) ELSE <<>>
           stored == ok /\ TokenFree(drafts, token)
           arg == CalledWith(topics_list)
       IN  IF topics_list = <<>>
           THEN /\ gen = "text" /\ ok /\ token = issued + 1
                /\ batch' = Advance(batch.queue)
                /\ bh' = Processed(user.id, "skipped", 0)
                /\ UNCHANGED <<drafts, issued, hist>>
           ELSE /\ gen \in KickoffOutcomes(topics_list)
                /\ IF gen = "raise"
                   THEN /\ ok /\ token = issued + 1
                        /\ batch' = OnUserException(batch.queue)
                        /\ bh' = Generates(Processed(user.id, "raised", 0), user.id, arg)
                        /\ UNCHANGED <<drafts, issued, hist>>
                   ELSE IF gen = "empty"
                   THEN /\ ok /\ token = issued + 1
                        /\ batch' = Advance(batch.queue)
                        /\ bh' = Generates(Processed(user.id, "empty", 0), user.id, arg)
                        /\ UNCHANGED <<drafts, issued, hist>>
                   ELSE /\ issued' = IF token > issued THEN token ELSE issued
                        /\ drafts' = IF stored
                                     THEN add_generated_content(drafts, user.id, gen, Pending, token)
                                     ELSE drafts
                        /\ hist' = IF stored THEN Append(hist, NoHistory) ELSE hist
                        /\ bh' = Generates(
                                    Processed(user.id, IF stored THEN "stored" ELSE "lost", token),
                                    user.id, arg)
                        /\ batch' = IF user.email # NULL
                                    THEN [batch EXCEPT !.phase = "mail", !.token = token]
                                    ELSE Advance(batch.queue)
    /\ UNCHANGED <<users, confirmMail, req, ret, received, edges, storeFaulty, aux>>

\* the job of src/app/main.py, lines 462-502, for the row at the head of the
\* queue: crew.kickoff() is called without the topics of the row, and what it
\* returns does not depend on them
AppBatchUser(gen, token, ok) ==
    /\ batch.phase = "user"
    /\ cron.job = "app"
    /\ LET user == Head(batch.queue)
           topics_list == json_loads(user.topics)
           stored == ok /\ TokenFree(drafts, token)
       IN  IF topics_list = <<>>
           THEN /\ gen = "text" /\ ok /\ token = issued + 1
                /\ batch' = Advance(batch.queue)
                /\ bh' = Processed(user.id, "skipped", 0)
                /\ UNCHANGED <<drafts, issued, hist>>
           ELSE IF gen = "raise"
           THEN /\ ok /\ token = issued + 1
                /\ batch' = OnUserException(batch.queue)
                /\ bh' = Generates(Processed(user.id, "raised", 0), user.id, CalledBare)
                /\ UNCHANGED <<drafts, issued, hist>>
           ELSE IF gen = "empty"
           THEN /\ ok /\ token = issued + 1
                /\ batch' = Advance(batch.queue)
                /\ bh' = Generates(Processed(user.id, "empty", 0), user.id, CalledBare)
                /\ UNCHANGED <<drafts, issued, hist>>
           ELSE /\ issued' = IF token > issued THEN token ELSE issued
                /\ drafts' = IF stored
                             THEN add_generated_content(drafts, user.id, gen, Pending, token)
                             ELSE drafts
                /\ hist' = IF stored THEN Append(hist, NoHistory) ELSE hist
                /\ bh' = Generates(
                            Processed(user.id, IF stored THEN "stored" ELSE "lost", token),
                            user.id, CalledBare)
                /\ batch' = IF user.email # NULL
                            THEN [batch EXCEPT !.phase = "mail", !.token = token]
                            ELSE Advance(batch.queue)
    /\ UNCHANGED <<users, confirmMail, req, ret, received, edges, storeFaulty, aux>>

\* lines 71-98 for the row at the head of the queue
BatchMail(render, sent) ==
    /\ batch.phase = "mail"
    /\ LET user == Head(batch.queue)
       IN  /\ confirmMail' =
                IF render = "raise" THEN confirmMail
                ELSE confirmMail \cup
                        {[to |-> user.id, token |-> batch.token, delivered |-> sent]}
           /\ bh' = [bh EXCEPT !.mail[user.id] =
                        IF render = "raise" THEN "raised"
                        ELSE IF sent THEN "sent" ELSE "send_failed"]
           /\ batch' = IF render = "raise"
                       THEN OnUserException(batch.queue)
                       ELSE Advance(batch.queue)
    /\ UNCHANGED <<users, drafts, issued, req, ret, received, hist, edges,
                   storeFaulty, aux>>

\* ------------------------------------------------------------- trigger endpoint
\* trigger_content_generation, src/api/cron.py lines 107-156
NoHeader == [scheme |-> NULL, cred |-> NULL]
Bearer(secret) == [scheme |-> "Bearer", cred |-> secret]

AuthHeaders == {NoHeader, Bearer("s3cret"), Bearer("guess"),
                [scheme |-> "Basic", cred |-> "s3cret"]}

\* User-Agent values, and str.lower() on them
UserAgents == {"curl/8.0", "vercel-cron/1.0", "Vercel-Cron/1.0"}

lower(text) ==
    CASE text = "Vercel-Cron/1.0" -> "vercel-cron/1.0"
      [] OTHER -> text

\* 'vercel-cron' in user_agent.lower()
is_vercel_cron(user_agent) == lower(user_agent) = "vercel-cron/1.0"

\* line 128
Unauthorized(cron_secret, auth_header, user_agent) ==
    /\ cron_secret # NULL /\ cron_secret # ""
    /\ ~is_vercel_cron(user_agent)
    /\ auth_header # Bearer(cron_secret)

Trigger(auth_header, user_agent) ==
    /\ batch.phase = "idle"
    /\ IF Unauthorized(cron.secret, auth_header, user_agent)
       THEN /\ cron' = [cron EXCEPT !.status = "unauthorized", !.auth = auth_header,
                            !.agent = user_agent, !.ran = FALSE]
            /\ UNCHANGED <<batch, bh>>
       ELSE /\ bh.runs < MaxRuns
            /\ StartRun
            /\ cron' = [cron EXCEPT !.status = "accepted", !.auth = auth_header,
                            !.agent = user_agent, !.ran = TRUE]
    /\ UNCHANGED <<users, drafts, issued, confirmMail, req, ret, received, hist,
                   edges, storeFaulty, crew, site>>

\* ------------------------------------------------------------- account routes
\* disconnect_twitter_route, src/main.py lines 218-230
Disconnect(u, ok) ==
    /\ users[u].is_active
    /\ users' = IF ok THEN set_user_active_status(users, u, FALSE) ELSE users
    /\ UNCHANGED <<drafts, issued, batch, bh, confirmMail, req, ret, received,
                   hist, edges, storeFaulty, aux>>

\* twitter_callback, src/main.py lines 195-203, for an account the table holds:
\* create_or_update_user sets the row active again; the email of the row
\* follows the pending email of the session as the backend's UPDATE has it
Reconnect(u, pending_email, ok) ==
    /\ ~users[u].is_active
    /\ users' = IF ok
                THEN [users EXCEPT ![u].is_active = TRUE,
                        ![u].email = IF backend = "postgres" \/ pending_email # NULL
                                     THEN pending_email ELSE @]
                ELSE users
    /\ UNCHANGED <<drafts, issued, batch, bh, confirmMail, req, ret, received,
                   hist, edges, storeFaulty, aux>>

\* ------------------------------------------------------------- content generator
\* src/crew.py.  A text is a sequence of characters; a topic is a value of the
\* list given to kickoff, which is a string or not
MaxTweetLen == 280
KeepLen == 277

Fill(n, c) == [i \in 1 .. n |-> c]

Str(chars) == [str |-> TRUE, chars |-> chars]
NonStr == [str |-> FALSE, chars |-> <<>>]

\* user_topics: None, or a list
NoTopics == [given |-> FALSE, list |-> <<>>]
TopicList(list) == [given |-> TRUE, list |-> list]

TopicLists ==
    { NoTopics,
      TopicList(<<>>),
      TopicList(<<Str(<<"A", "I">>)>>),
      TopicList(<<Str(<<"A", "I">>), Str(<<"M", "L">>), Str(<<"B">>), Str(<<"X">>)>>),
      TopicList(<<Str(Fill(MaxTweetLen - 80, "t"))>>),
      TopicList(<<NonStr>>),
      TopicList(<<Str(<<"A", "I">>), Str(<<"M", "L">>), Str(<<"B">>), NonStr>>) }

\* "if user_topics": neither None nor the empty list
Truthy(user_topics) == user_topics.given /\ user_topics.list # <<>>

AllStr(list) == \A i \in 1 .. Len(list) : list[i].str

\* ", ".join(list) of a list of strings
RECURSIVE join(_)
join(list) ==
    IF list = <<>> THEN <<>>
    ELSE IF Len(list) = 1 THEN list[1].chars
    ELSE list[1].chars \o <<",", " ">> \o join(Tail(list))

\* str.strip(): leading and trailing whitespace removed
RECURSIVE lstrip(_)
lstrip(t) == IF t # <<>> /\ Head(t) = " " THEN lstrip(Tail(t)) ELSE t

RECURSIVE rstrip(_)
rstrip(t) == IF t # <<>> /\ t[Len(t)] = " " THEN rstrip(SubSeq(t, 1, Len(t) - 1)) ELSE t

strip(t) == rstrip(lstrip(t))

\* faulty variant: the text is cut at the limit and the marker added after it
TruncateAtLimit(t) ==
    IF Len(t) > MaxTweetLen
    THEN SubSeq(t, 1, MaxTweetLen) \o <<".", ".", ".">>
    ELSE t

\* lines 80-81, 98-99, 125-126
Truncate(t) ==
    IF Len(t) > MaxTweetLen
    THEN SubSeq(t, 1, KeepLen) \o <<".", ".", ".">>
    ELSE t

\* the texts a provider answers with: a body of some length, with blanks in
\* it, between leading and trailing blanks
ProviderBody(n) ==
    [i \in 1 .. n |-> IF i % 7 = 3 THEN " " ELSE IF i % 2 = 0 THEN "a" ELSE "b"]

BodyLens == {0, 1} \cup (KeepLen .. MaxTweetLen + MaxOver)

ProviderTexts ==
    { Fill(lead, " ") \o ProviderBody(n) \o Fill(trail, " ") :
        n \in BodyLens, lead \in 0 .. 1, trail \in 0 .. 1 }

\* lines 114-119: the fixed text before and after topics_str, by its length
TemplateParts ==
    << [pre |-> 37, post |-> 46], [pre |-> 14, post |-> 60],
       [pre |-> 16, post |-> 62], [pre |-> 28, post |-> 49],
       [pre |-> 20, post |-> 71], [pre |-> 14, post |-> 70] >>

Template(k, topics_str) ==
    Fill(TemplateParts[k].pre, "p") \o topics_str \o Fill(TemplateParts[k].post, "s")

\* line 130, by its length
FallbackContent == Fill(98, "f")

Raised == [kind |-> "raise", text |-> <<>>, raw |-> <<>>]
Generated(raw, text) == [kind |-> "text", text |-> text, raw |-> raw]

\* faulty variant: every topic goes into the template, not the first three
FallbackWithAllTopics(user_topics, k) ==
    IF Truthy(user_topics)
    THEN IF ~AllStr(user_topics.list) THEN Raised
         ELSE LET selected_template == Template(k, join(user_topics.list))
              IN  Generated(selected_template, Truncate(selected_template))
    ELSE Generated(FallbackContent, FallbackContent)

\* faulty variant: "if user_topics is not None", which lets the empty list in
FallbackTestingNone(user_topics, k) ==
    IF user_topics.given
    THEN LET first == SubSeq(user_topics.list, 1,
                             IF Len(user_topics.list) < 3 THEN Len(user_topics.list) ELSE 3)
         IN  IF ~AllStr(first) THEN Raised
             ELSE LET selected_template == Template(k, join(first))
                  IN  Generated(selected_template, Truncate(selected_template))
    ELSE Generated(FallbackContent, FallbackContent)

\* _fallback_content_generation, with template k drawn by random.choice
fallback_content_generation(user_topics, k) ==
    IF Truthy(user_topics)
    THEN LET first == SubSeq(user_topics.list, 1,
                             IF Len(user_topics.list) < 3 THEN Len(user_topics.list) ELSE 3)
         IN  IF ~AllStr(first) THEN Raised
             ELSE LET selected_template == Template(k, join(first))
                  IN  Generated(selected_template, Truncate(selected_template))
    ELSE Generated(FallbackContent, FallbackContent)

IdleGen == [pc |-> "idle", client |-> NULL, user_topics |-> NoTopics,
            via |-> "none", result |-> Raised, calls |-> 0]

\* lines 55-60: no client, or the prompt is built (the join raises on a
\* non-string and line 105 catches it)
KickoffStart ==
    /\ crew.pc = "call"
    /\ crew' = [crew EXCEPT !.pc =
            IF crew.client = NULL THEN "fallback"
            ELSE IF Truthy(crew.user_topics) /\ ~AllStr(crew.user_topics.list)
            THEN "fallback"
            ELSE "provider",
          !.via = IF crew.client = NULL THEN "no_client"
                  ELSE IF Truthy(crew.user_topics) /\ ~AllStr(crew.user_topics.list)
                  THEN "except" ELSE "provider"]
    /\ UNCHANGED <<users, drafts, issued, batch, bh, confirmMail, req, ret,
                   received, hist, edges, storeFaulty, cron, site>>

\* lines 75-103: the provider answers with a text or with an error
KickoffProvider(answer) ==
    /\ crew.pc = "provider"
    /\ crew' = IF answer.error
              THEN [crew EXCEPT !.pc = "fallback", !.via = "except", !.calls = @ + 1]
              ELSE LET generated_tweet == strip(answer.text)
                   IN  [crew EXCEPT !.pc = "done", !.calls = @ + 1,
                            !.result = Generated(generated_tweet, Truncate(generated_tweet))]
    /\ UNCHANGED <<users, drafts, issued, batch, bh, confirmMail, req, ret,
                   received, hist, edges, storeFaulty, cron, site>>

\* lines 57 and 107
KickoffFallback(k) ==
    /\ crew.pc = "fallback"
    /\ crew' = [crew EXCEPT !.pc = "done",
                  !.result = fallback_content_generation(crew.user_topics, k)]
    /\ UNCHANGED <<users, drafts, issued, batch, bh, confirmMail, req, ret,
                   received, hist, edges, storeFaulty, cron, site>>

\* ------------------------------------------------------------- accounts
\* src/main.py twitter_callback and save_settings_route on the users table of
\* src/database.py, one store call a step
Browsers == {"b1", "b2"}
TwitterIds == {"t1", "t2"}

NoSession == [user_db_id |-> 0, pending_email |-> NULL]

IdleCall == [pc |-> "idle", twitter_id |-> NULL, cred |-> 0, email |-> NULL,
             topics |-> NULL, row |-> 0, row_topics |-> NULL, n |-> 0,
             changed |-> FALSE]

NoCalls == [n |-> 0, call |-> [b \in Browsers |-> IdleCall]]

NoReply == [n |-> 0, route |-> "none", browser |-> NULL, status |-> "none",
            email_in |-> NULL, topics_in |-> NULL, row |-> 0, messages |-> <<>>]

\* email values of a settings request, and their characters
EmailInputs == {"", "a@b.c", " a@b.c ", "a@b", "a b@c.d"}

EmailChars(email) ==
    CASE email = "a@b.c" -> <<"a", "@", "b", ".", "c">>
      [] email = " a@b.c " -> <<" ", "a", "@", "b", ".", "c", " ">>
      [] email = "a@b" -> <<"a", "@", "b">>
      [] email = "a b@c.d" -> <<"a", " ", "b", "@", "c", ".", "d">>
      [] OTHER -> <<>>

EmailOf(chars) == CHOOSE email \in EmailInputs : EmailChars(email) = chars

\* [^\s@]+ on the characters from..to of a text
Plain(chars, from, to) ==
    /\ from <= to
    /\ \A i \in from .. to : chars[i] # " " /\ chars[i] # "@"

\* faulty variant: only an "@" between two plain parts is asked for
EmailShapeWithoutDot(chars) ==
    \E at \in 1 .. Len(chars) :
        /\ chars[at] = "@"
        /\ Plain(chars, 1, at - 1)
        /\ Plain(chars, at + 1, Len(chars))

\* re.match(r'^[^\s@]+@[^\s@]+\.[^\s@]+$', email)
EmailShape(chars) ==
    \E at \in 1 .. Len(chars), dot \in 1 .. Len(chars) :
        /\ chars[at] = "@" /\ chars[dot] = "."
        /\ Plain(chars, 1, at - 1)
        /\ Plain(chars, at + 1, dot - 1)
        /\ Plain(chars, dot + 1, Len(chars))

\* the topics of a settings request: key absent, null, or a list
TopicInputs == {"absent", "null", "[]", "[\"AI\"]"}

\* data.get('topics', []) and json.dumps of it
json_dumps_topics(topics_in) == IF topics_in = "absent" THEN "[]" ELSE topics_in

\* faulty variant: the twitter_id column without its UNIQUE constraint
TwitterIdUnchecked(rows, twitter_id) == TRUE

\* twitter_id ... UNIQUE NOT NULL
TwitterIdFree(rows, twitter_id) ==
    \A i \in 1 .. Len(rows) : rows[i].twitter_id # twitter_id

\* create_or_update_user, the UPDATE of lines 187-210
update_user(rows, user_id, cred, email, final_topics) ==
    [rows EXCEPT ![user_id] =
        IF backend = "postgres"
        THEN [@ EXCEPT !.cred = cred, !.email = email, !.topics = final_topics,
                       !.is_active = TRUE]
        ELSE [@ EXCEPT !.cred = cred,
                       !.email = IF email # NULL THEN email ELSE @,
                       !.topics = IF final_topics # NULL THEN final_topics ELSE @,
                       !.is_active = TRUE]]

\* create_or_update_user, the INSERT of lines 213-226
insert_user(rows, twitter_id, cred, email, final_topics) ==
    Append(rows, [twitter_id |-> twitter_id, cred |-> cred, email |-> email,
                  topics |-> final_topics, is_active |-> TRUE])

\* update_user_email: '' and blank are stored as NULL
update_user_email(rows, user_id, email) ==
    [rows EXCEPT ![user_id].email =
        IF email # NULL /\ email # "" /\ strip(EmailChars(email)) # <<>>
        THEN email ELSE NULL]

update_user_topics(rows, user_id, topics_json) ==
    [rows EXCEPT ![user_id].topics = topics_json]

Answer(n, b, route, status, fields) ==
    [n |-> n, route |-> route, browser |-> b, status |-> status,
     email_in |-> fields.email_in, topics_in |-> fields.topics_in,
     row |-> fields.row, messages |-> fields.messages]

NoFields == [email_in |-> NULL, topics_in |-> NULL, row |-> 0, messages |-> <<>>]

\* twitter_callback lines 195-196 and create_or_update_user lines 176-185:
\* the pending email leaves the session, the row of the account is looked up
OAuthSelect(b, twitter_id) ==
    /\ web.call[b].pc = "idle"
    /\ web.n < MaxWeb
    /\ LET hits == {i \in 1 .. Len(accounts) : accounts[i].twitter_id = twitter_id}
           row == IF hits = {} THEN 0 ELSE CHOOSE i \in hits : TRUE
       IN  web' = [n |-> web.n + 1,
                   call |-> [web.call EXCEPT ![b] =
                        [pc |-> "oauth_write", twitter_id |-> twitter_id,
                         cred |-> web.n + 1,
                         email |-> sessions[b].pending_email,
                         topics |-> NULL, row |-> row,
                         row_topics |-> IF row = 0 THEN NULL ELSE accounts[row].topics,
                         n |-> web.n + 1, changed |-> FALSE]]]
    /\ sessions' = [sessions EXCEPT ![b].pending_email = NULL]
    /\ UNCHANGED <<users, drafts, issued, batch, bh, confirmMail, req, ret,
                   received, hist, edges, storeFaulty, cron, crew, accounts,
                   backend, reply>>

\* create_or_update_user lines 187-234 and twitter_callback lines 205-211
OAuthWrite(b, ok) ==
    /\ web.call[b].pc = "oauth_write"
    /\ LET c == web.call[b]
           final_topics == IF c.topics = NULL THEN c.row_topics ELSE c.topics
           done == IF c.row # 0 THEN ok ELSE ok /\ TwitterIdFree(accounts, c.twitter_id)
           user_id == IF c.row # 0 THEN c.row ELSE Len(accounts) + 1
       IN  /\ accounts' =
                IF ~done THEN accounts
                ELSE IF c.row # 0
                THEN update_user(accounts, c.row, c.cred, c.email, final_topics)
                ELSE insert_user(accounts, c.twitter_id, c.cred, c.email, final_topics)
           /\ sessions' = IF done THEN [sessions EXCEPT ![b].user_db_id = user_id]
                          ELSE sessions
           /\ reply' = Answer(c.n, b, "oauth", IF done THEN "connected" ELSE "not_saved",
                              [NoFields EXCEPT !.email_in = c.email,
                                               !.row = IF done THEN user_id ELSE c.row])
    /\ web' = [web EXCEPT !.call[b] = IdleCall]
    /\ UNCHANGED <<users, drafts, issued, batch, bh, confirmMail, req, ret,
                   received, hist, edges, storeFaulty, cron, crew, backend>>

\* the JSON body of a settings request: none, or its email and topics values
NoData == [given |-> FALSE, email |-> "", topics |-> "absent"]

\* the email of a settings request: key absent, null, or a string
AbsentEmail == "absent"

\* data.get('email', '')
data_get_email(email_in) == IF email_in = AbsentEmail THEN "" ELSE email_in

SettingsInputs ==
    {NoData} \cup [given : {TRUE}, email : EmailInputs \cup {NULL, AbsentEmail},
                   topics : TopicInputs]

\* save_settings_route lines 236-264: validation, then the email goes to the
\* store or to the session
SaveSettings(b, data, ok) ==
    /\ web.call[b].pc = "idle"
    /\ web.n < MaxWeb
    /\ LET n == web.n + 1
           user == sessions[b].user_db_id
           sent == [NoFields EXCEPT !.email_in = data.email, !.topics_in = data.topics,
                                    !.row = user]
           received_ == [web EXCEPT !.n = n]
       IN  IF ~data.given
           THEN /\ ok
                /\ reply' = Answer(n, b, "settings", "no_data", sent)
                /\ web' = received_
                /\ UNCHANGED <<accounts, sessions>>
           ELSE IF data.email = NULL
           THEN /\ ok             \* None.strip() raises, line 276 answers
                /\ reply' = Answer(n, b, "settings", "server_error", sent)
                /\ web' = received_
                /\ UNCHANGED <<accounts, sessions>>
           ELSE LET email == EmailOf(strip(EmailChars(data_get_email(data.email))))
                IN  IF email # "" /\ ~EmailShape(EmailChars(email))
                    THEN /\ ok
                         /\ reply' = Answer(n, b, "settings", "invalid_email", sent)
                         /\ web' = received_
                         /\ UNCHANGED <<accounts, sessions>>
                    ELSE IF user # 0 /\ ~ok
                    THEN /\ reply' = Answer(n, b, "settings", "email_failed", sent)
                         /\ web' = received_
                         /\ UNCHANGED <<accounts, sessions>>
                    ELSE /\ accounts' = IF user # 0
                                        THEN update_user_email(accounts, user,
                                                IF email = "" THEN NULL ELSE email)
                                        ELSE accounts
                         /\ sessions' = IF user # 0 THEN sessions
                                        ELSE [sessions EXCEPT ![b].pending_email = email]
                         /\ LET said == [sent EXCEPT !.messages =
                                    <<IF user # 0 THEN "Email updated"
                                      ELSE "Email will be saved when you connect Twitter">>]
                            IN  IF data.topics # "null" /\ user # 0
                                THEN /\ web' = [n |-> n, call |-> [web.call EXCEPT ![b] =
                                            [IdleCall EXCEPT !.pc = "settings_topics",
                                                !.email = data.email,
                                                !.topics = data.topics,
                                                !.row = user, !.n = n,
                                                !.changed = (accounts' # accounts)]]]
                                     /\ UNCHANGED reply
                                ELSE /\ web' = received_
                                     /\ reply' = Answer(n, b, "settings", "saved",
                                            IF data.topics \notin {"null", "absent", "[]"}
                                            THEN [said EXCEPT !.messages =
                                                    Append(@, "Connect Twitter to save topics")]
                                            ELSE said)
    /\ UNCHANGED <<users, drafts, issued, batch, bh, confirmMail, req, ret,
                   received, hist, edges, storeFaulty, cron, crew, backend>>

\* save_settings_route lines 265-274
SaveTopics(b, ok) ==
    /\ web.call[b].pc = "settings_topics"
    /\ LET c == web.call[b]
           sent == [NoFields EXCEPT !.email_in = c.email, !.topics_in = c.topics,
                                    !.row = c.row]
       IN  /\ accounts' = IF ok
                           THEN update_user_topics(accounts, c.row, json_dumps_topics(c.topics))
                           ELSE accounts
           /\ reply' = IF ok
                        THEN Answer(c.n, b, "settings", "saved",
                                [sent EXCEPT !.messages = <<"Email updated", "Topics updated">>])
                        ELSE Answer(c.n, b, "settings", "topics_failed", sent)
    /\ web' = [web EXCEPT !.call[b] = IdleCall]
    /\ UNCHANGED <<users, drafts, issued, batch, bh, confirmMail, req, ret,
                   received, hist, edges, storeFaulty, cron, crew, backend, sessions>>

\* disconnect_twitter_route on the full table: the row is set inactive, the
\* session is cleared
WebDisconnect(b, ok) ==
    /\ web.call[b].pc = "idle"
    /\ web.n < MaxWeb
    /\ LET user == sessions[b].user_db_id
       IN  /\ accounts' = IF user # 0 /\ ok
                           THEN [accounts EXCEPT ![user].is_active = FALSE]
                           ELSE accounts
           /\ user = 0 => ok
           /\ reply' = Answer(web.n + 1, b, "disconnect",
                              IF user # 0 THEN "disconnected" ELSE "no_session",
                              [NoFields EXCEPT !.row = user])
    /\ sessions' = [sessions EXCEPT ![b] = NoSession]
    /\ web' = [web EXCEPT !.n = @ + 1]
    /\ UNCHANGED <<users, drafts, issued, batch, bh, confirmMail, req, ret,
                   received, hist, edges, storeFaulty, cron, crew, backend>>

\* initialize_database, src/api/init-db.py lines 22-58: init_db drops the
\* tables and creates them empty
NoUser == [is_active |-> FALSE, email |-> NULL, topics |-> NULL]

init_db ==
    /\ drafts' = <<>>
    /\ users' = [u \in Users |-> NoUser]

InitializeDatabase ==
    /\ init_db
    /\ hist' = <<>>
    /\ UNCHANGED <<issued, batch, bh, confirmMail, req, ret, received, edges,
                   storeFaulty, aux>>

\* ------------------------------------------------------------- specifications
\* no request has reached the trigger endpoint
NoTrigger == [secret |-> NULL, status |-> "none", auth |-> NoHeader,
              agent |-> "", ran |-> FALSE, job |-> "api"]

SiteIdle ==
    /\ accounts = <<>>
    /\ backend = "sqlite"
    /\ sessions = [b \in Browsers |-> NoSession]
    /\ web = NoCalls
    /\ reply = NoReply

AuxIdle == cron = NoTrigger /\ crew = IdleGen /\ SiteIdle

\* the users table once the accounts have connected and saved their settings
UserRows == [is_active : {TRUE}, email : Emails, topics : TopicTexts]

InitTables == [Users -> UserRows]

Quiet(faulty) ==
    /\ batch = IdleBatch
    /\ bh = FreshHistory(0)
    /\ req = [r \in Requests |-> IdleRequest]
    /\ ret = [IdleRequest EXCEPT !.pc = "none"]
    /\ received = 0
    /\ edges = {}
    /\ storeFaulty = faulty

\* save_settings_route stores json.dumps of whatever JSON value the request
\* gives as topics: "{}" is a text the SELECT lets through and line 57 skips
BatchTopicTexts == TopicTexts \cup {"{}"}

BatchUserRows == [is_active : {TRUE}, email : Emails, topics : BatchTopicTexts]

\* the batch job on a store that holds no draft yet
InitBatchOn(faulty) ==
    /\ users \in [Users -> BatchUserRows]
    /\ drafts = <<>>
    /\ issued = 0
    /\ confirmMail = {}
    /\ hist = <<>>
    /\ Quiet(faulty)
    /\ AuxIdle

NextBatch ==
    \/ BatchStart
    \/ \E gen \in {"text", "empty", "raise"}, token \in Uuid4Outcomes,
          ok \in WriteOutcomes : BatchUser(gen, token, ok)
    \/ \E render \in RenderOutcomes, sent \in BOOLEAN : BatchMail(render, sent)
    \/ \E u \in Users, ok \in WriteOutcomes : Disconnect(u, ok)

InitBatch == InitBatchOn(FALSE)

SpecBatch == InitBatch /\ [][NextBatch]_vars

InitBatchFault == InitBatchOn(TRUE)

SpecBatchFault == InitBatchFault /\ [][NextBatch]_vars

\* the batch job behind its trigger endpoint, CRON_SECRET set or not
InitTrigger ==
    /\ users \in [Users -> BatchUserRows]
    /\ drafts = <<>>
    /\ issued = 0
    /\ confirmMail = {}
    /\ hist = <<>>
    /\ Quiet(FALSE)
    /\ crew = IdleGen
    /\ SiteIdle
    /\ cron \in {[NoTrigger EXCEPT !.secret = s] : s \in {NULL, "s3cret"}}

NextTrigger ==
    \/ \E auth_header \in AuthHeaders, user_agent \in UserAgents :
            Trigger(auth_header, user_agent)
    \/ \E gen \in {"text", "empty", "raise"}, token \in Uuid4Outcomes,
          ok \in WriteOutcomes : BatchUser(gen, token, ok)
    \/ \E render \in RenderOutcomes, sent \in BOOLEAN : BatchMail(render, sent)
    \/ \E u \in Users, ok \in WriteOutcomes : Disconnect(u, ok)

SpecTrigger == InitTrigger /\ [][NextTrigger]_vars

\* the drafts a completed run of the job leaves for the enumerated rows when
\* every generation returned a text and every insert was committed
RECURSIVE RunOver(_, _)
RunOver(rows, rs) ==
    IF rows = <<>> THEN rs
    ELSE LET user == Head(rows)
             topics_list == IF user.topics # NULL THEN json_loads(user.topics) ELSE <<>>
         IN  IF topics_list # <<>> /\ "text" \in KickoffOutcomes(topics_list)
             THEN RunOver(Tail(rows),
                          add_generated_content(rs, user.id, "text", Pending, Len(rs) + 1))
             ELSE RunOver(Tail(rows), rs)

\* the confirm handler on the store such a run has left, its mails delivered
InitConfirmOn(faulty) ==
    /\ users \in InitTables
    /\ drafts = RunOver(get_active_users_with_topics, <<>>)
    /\ issued = Len(drafts)
    /\ confirmMail =
            {[to |-> drafts[i].user_id, token |-> drafts[i].confirmation_token,
              delivered |-> TRUE] :
                i \in {j \in 1 .. Len(drafts) : users[drafts[j].user_id].email # NULL}}
    /\ hist = [i \in 1 .. Len(drafts) |-> NoHistory]
    /\ Quiet(faulty)
    /\ AuxIdle

Init == InitConfirmOn(FALSE)

Next ==
    \/ \E r \in Requests, t \in 0 .. issued : ConfirmLookup(r, t)
    \/ \E r \in Requests, ok \in WriteOutcomes : ConfirmInactiveWrite(r, ok)
    \/ \E r \in Requests, call \in ClientCalls : ConfirmPost(r, call)
    \/ \E r \in Requests, ok \in WriteOutcomes : ConfirmPostedWrite(r, ok)
    \/ \E r \in Requests, render \in RenderOutcomes, sent \in BOOLEAN :
            ConfirmEmail(r, render, sent)
    \/ \E r \in Requests, ok \in WriteOutcomes : ConfirmFailedWrite(r, ok)
    \/ \E r \in Requests, ok \in WriteOutcomes : ConfirmExcept(r, ok)
    \/ \E u \in Users, ok \in WriteOutcomes : Disconnect(u, ok)

Spec == Init /\ [][Next]_vars

\* the steps of the handler that serves request r, once it is received
Handler(r) ==
    \/ \E ok \in WriteOutcomes : ConfirmInactiveWrite(r, ok)
    \/ \E call \in ClientCalls : ConfirmPost(r, call)
    \/ \E ok \in WriteOutcomes : ConfirmPostedWrite(r, ok)
    \/ \E render \in RenderOutcomes, sent \in BOOLEAN : ConfirmEmail(r, render, sent)
    \/ \E ok \in WriteOutcomes : ConfirmFailedWrite(r, ok)
    \/ \E ok \in WriteOutcomes : ConfirmExcept(r, ok)

\* the same on the store that holds one draft, of an owner with or without an
\* email address, where the thread of a request in flight goes on running and
\* each call it makes comes back
InitLive ==
    /\ Init
    /\ users["u1"].topics = "[\"AI\"]"
    /\ users["u2"] = [is_active |-> TRUE, email |-> NULL, topics |-> "[]"]

SpecLive == InitLive /\ [][Next]_vars /\ \A r \in Requests : WF_vars(Handler(r))

\* the same on a store whose writes can fail
InitStoreFault == InitConfirmOn(TRUE)

SpecStoreFault == InitStoreFault /\ [][Next]_vars

\* the same when confirm requests arrive one after the other: a request is
\* received only when every earlier one has returned
NoneInFlight == \A q \in Requests : req[q].pc = "idle"

NextSeq ==
    \/ \E r \in Requests, t \in 0 .. issued : NoneInFlight /\ ConfirmLookup(r, t)
    \/ \E r \in Requests, ok \in WriteOutcomes : ConfirmInactiveWrite(r, ok)
    \/ \E r \in Requests, call \in ClientCalls : ConfirmPost(r, call)
    \/ \E r \in Requests, ok \in WriteOutcomes : ConfirmPostedWrite(r, ok)
    \/ \E r \in Requests, render \in RenderOutcomes, sent \in BOOLEAN :
            ConfirmEmail(r, render, sent)
    \/ \E r \in Requests, ok \in WriteOutcomes : ConfirmFailedWrite(r, ok)
    \/ \E r \in Requests, ok \in WriteOutcomes : ConfirmExcept(r, ok)
    \/ \E u \in Users, ok \in WriteOutcomes : Disconnect(u, ok)

SpecSeq == Init /\ [][NextSeq]_vars

\* the same, with requests to the database-initialisation endpoint among them
NextReset ==
    \/ NextSeq
    \/ NoneInFlight /\ InitializeDatabase

SpecReset == Init /\ [][NextReset]_vars

\* the batch job in each of its variants: the one of src/api/cron.py, and the
\* one src/app/main.py (and src/twitter_bot/app/main.py) hands to its scheduler
InitJobs ==
    /\ users \in [Users -> BatchUserRows]
    /\ drafts = <<>>
    /\ issued = 0
    /\ confirmMail = {}
    /\ hist = <<>>
    /\ Quiet(FALSE)
    /\ crew = IdleGen
    /\ SiteIdle
    /\ cron \in {[NoTrigger EXCEPT !.job = j] : j \in {"api", "app"}}

NextJobs ==
    \/ BatchStart
    \/ \E gen \in {"text", "empty", "raise"}, token \in Uuid4Outcomes,
          ok \in WriteOutcomes : BatchUser(gen, token, ok)
    \/ \E gen \in {"text", "empty", "raise"}, token \in Uuid4Outcomes,
          ok \in WriteOutcomes : AppBatchUser(gen, token, ok)
    \/ \E render \in RenderOutcomes, sent \in BOOLEAN : BatchMail(render, sent)
    \/ \E u \in Users, ok \in WriteOutcomes : Disconnect(u, ok)

SpecJobs == InitJobs /\ [][NextJobs]_vars

\* the batch job on a store that holds the drafts of an earlier run, while
\* accounts disconnect and connect again
NextConnect ==
    \/ BatchStart
    \/ \E gen \in {"text", "empty", "raise"}, token \in Uuid4Outcomes,
          ok \in WriteOutcomes : BatchUser(gen, token, ok)
    \/ \E render \in RenderOutcomes, sent \in BOOLEAN : BatchMail(render, sent)
    \/ \E u \in Users, ok \in WriteOutcomes : Disconnect(u, ok)
    \/ \E u \in Users, pending_email \in Emails, ok \in WriteOutcomes :
            Reconnect(u, pending_email, ok)

SpecConnect == Init /\ [][NextConnect]_vars

\* calls of crew.kickoff, for every configuration and every list of topics
NoTables ==
    /\ users = [u \in Users |-> NoUser]
    /\ drafts = <<>>
    /\ issued = 0
    /\ confirmMail = {}
    /\ hist = <<>>

InitGen ==
    /\ NoTables
    /\ Quiet(FALSE)
    /\ cron = NoTrigger
    /\ SiteIdle
    /\ crew \in {[IdleGen EXCEPT !.pc = "call", !.client = c, !.user_topics = t] :
                    c \in {NULL, "gemini", "openai"}, t \in TopicLists}

NextGen ==
    \/ KickoffStart
    \/ \E answer \in {[error |-> TRUE, text |-> <<>>]}
                        \cup {[error |-> FALSE, text |-> t] : t \in ProviderTexts} :
            KickoffProvider(answer)
    \/ \E k \in 1 .. Len(TemplateParts) : KickoffFallback(k)

SpecGen == InitGen /\ [][NextGen]_vars

\* the account routes, on either backend, from a table that is empty or holds
\* one account, whose owner may be logged in from the first browser
AccountRows ==
    [twitter_id : {"t1"}, cred : {0}, email : Emails, topics : {NULL, "[\"AI\"]"},
     is_active : BOOLEAN]

InitAccountsOn(faulty) ==
    /\ NoTables
    /\ Quiet(faulty)
    /\ cron = NoTrigger
    /\ crew = IdleGen
    /\ backend \in {"postgres", "sqlite"}
    /\ accounts \in {<<>>} \cup {<<row>> : row \in AccountRows}
    /\ sessions \in {[b \in Browsers |-> NoSession]} \cup
                     (IF accounts = <<>> THEN {}
                      ELSE {[b \in Browsers |->
                                IF b = "b1" THEN [NoSession EXCEPT !.user_db_id = 1]
                                ELSE NoSession]})
    /\ web = NoCalls
    /\ reply = NoReply

InitAccounts == InitAccountsOn(FALSE)

NextAccounts ==
    \/ \E b \in Browsers, twitter_id \in TwitterIds : OAuthSelect(b, twitter_id)
    \/ \E b \in Browsers, ok \in WriteOutcomes : OAuthWrite(b, ok)
    \/ \E b \in Browsers, data \in SettingsInputs, ok \in WriteOutcomes :
            SaveSettings(b, data, ok)
    \/ \E b \in Browsers, ok \in WriteOutcomes : SaveTopics(b, ok)
    \/ \E b \in Browsers, ok \in WriteOutcomes : WebDisconnect(b, ok)

SpecAccounts == InitAccounts /\ [][NextAccounts]_vars

\* the same on a store whose writes can fail
InitAccountsFault == InitAccountsOn(TRUE)

SpecAccountsFault == InitAccountsFault /\ [][NextAccounts]_vars

\* ------------------------------------------------------------- properties
DraftIds == 1 .. Len(drafts)

Returned == ret.pc = "returned"

Only(status) == <<[status |-> status, stored |-> status]>>

Unknown(token) == \A i \in DraftIds : drafts[i].confirmation_token # token

\* C1: whatever the interleaving of confirm requests carrying one token,
\* post_tweet is called at most once for the draft and at most one request is
\* served otherwise than with "already processed".
C1_PublishAtMostOnce ==
    \A i \in DraftIds : hist[i].pubs <= 1 /\ hist[i].served <= 1

\* C2: a draft's status only ever changes from pending_confirmation to one of
\* posted, failed_to_post, failed_user_inactive; no change leaves one of these
\* three, on any path of the handler.
C2_OnlyLegalTransitions ==
    edges \subseteq {<<Pending, s>> : s \in Terminal}

\* C3: when confirm requests for one token are served one after the other, the
\* draft changes status exactly once and post_tweet is called at most once; a
\* second and later request writes nothing, publishes nothing and reports the
\* status the draft already has.
C3_SequentialRepeatIsNoOp ==
    /\ \A i \in DraftIds :
            /\ hist[i].pubs <= 1
            /\ hist[i].changes <= 1
            /\ hist[i].returned >= 1 => hist[i].changes = 1
    /\ (Returned /\ ret.nth >= 2) =>
            /\ ret.writes = <<>>
            /\ ret.pubs = 0
            /\ ret.mails = 0
            /\ ret.flashes = <<Flash("already", <<drafts[ret.rec.id].status>>)>>
            /\ drafts[ret.rec.id].status \in Terminal

\* C4: a request that finds its draft pending and the owner inactive writes
\* failed_user_inactive, and only that; it never calls post_tweet and sends no
\* notification.
C4_InactiveOwnerNotPublished ==
    /\ \A r \in Requests :
            (req[r].pc # "idle" /\ ~req[r].rec.user_is_active) =>
                req[r].pc = "inactive_write" /\ req[r].pubs = 0 /\ req[r].mails = 0
    /\ (Returned /\ ret.rec.found /\ ret.rec.status = Pending
            /\ ~ret.rec.user_is_active) =>
            /\ ret.writes = Only(FailedUserInactive)
            /\ ret.pubs = 0
            /\ ret.mails = 0
            /\ ret.notify = "none"
            /\ ret.flashes = <<Flash("inactive", <<>>)>>

C4_Witness ==
    /\ Returned /\ ret.rec.found /\ ret.rec.status = Pending
    /\ ~ret.rec.user_is_active
    /\ drafts[ret.rec.id].status = FailedUserInactive

\* C5: a request whose token no draft carries is answered "invalid" at once;
\* it calls neither post_tweet nor the notifier, writes nothing, and the step
\* that receives it leaves every draft and every user as they were.
C5_UnknownTokenInert ==
    /\ [](\A r \in Requests : req[r].pc # "idle" => ~Unknown(req[r].token))
    /\ []((Returned /\ Unknown(ret.token)) =>
            /\ ~ret.rec.found
            /\ ret.flashes = <<Flash("invalid", <<>>)>>
            /\ ret.pubs = 0 /\ ret.mails = 0 /\ ret.writes = <<>>)
    /\ [][(received' # received /\ ret' # ret /\ Unknown(ret'.token)) =>
            /\ drafts' = drafts /\ users' = users
            /\ hist' = hist /\ edges' = edges /\ confirmMail' = confirmMail]_vars

C5_Witness ==
    /\ Returned /\ Unknown(ret.token) /\ drafts # <<>>
    /\ ret.flashes = <<Flash("invalid", <<>>)>>

\* C6: a request whose post_tweet call succeeded leaves the draft posted with
\* posted_at set, having written posted and nothing else, and has handed
\* exactly one "posted" mail to send_email when the owner has an email address
\* and none otherwise.
C6_SuccessMeansPosted ==
    (Returned /\ ret.pubs = 1 /\ ret.success) =>
        /\ ret.writes = Only(Posted)
        /\ drafts[ret.rec.id].posted_at
        /\ ret.mails = IF ret.rec.user_email # NULL THEN 1 ELSE 0

\* C7: a request whose post_tweet call failed writes failed_to_post, and only
\* that, and reports the permissions message exactly when the returned text
\* holds "403 Forbidden" or "You are not permitted to perform this action";
\* otherwise it reports the returned text itself.
C7_FailureClassified ==
    (Returned /\ ret.pubs = 1 /\ ~ret.success) =>
        /\ ret.writes = Only(FailedToPost)
        /\ ret.mails = 0
        /\ LET hasPhrase ==
                   \E k \in 1 .. Len(ret.post_data) :
                       ret.post_data[k] \in
                           {"403 Forbidden",
                            "You are not permitted to perform this action"}
           IN  ret.flashes =
                   <<[kind |-> IF hasPhrase THEN "failed_permissions" ELSE "failed_other",
                      arg |-> ret.post_data]>>

C7_Witness ==
    /\ Returned /\ ret.pubs = 1 /\ ~ret.success
    /\ \E k \in 1 .. Len(ret.post_data) : ret.post_data[k] = PhraseNotPermitted
    /\ \A k \in 1 .. Len(ret.post_data) : ret.post_data[k] # Phrase403
    /\ ret.flashes[1].kind = "failed_permissions"
    /\ drafts[ret.rec.id].status = FailedToPost

\* C8: a notifier failure, in rendering or in sending, changes no status: after
\* a successful publish the request still has written posted only and reports
\* the post; in the batch job the draft of the mail that failed stays pending.
C8_NotifierFailureHarmless ==
    /\ (Returned /\ ret.notify \in {"render_error", "send_failed"}) =>
            /\ ret.writes = Only(Posted)
            /\ ret.flashes = <<Flash("posted", <<>>)>>
    /\ \A u \in Users :
            (bh.mail[u] \in {"raised", "send_failed"} /\ bh.out[u] = "stored") =>
                \E i \in DraftIds : /\ drafts[i].confirmation_token = bh.tok[u]
                                    /\ drafts[i].status = Pending

\* C9: in a run of the batch job every enumerated row is taken up exactly
\* once, whatever happened to the rows before it: an exception of one row does
\* not end the run, and the rows that succeed have their draft stored and
\* their confirmation mail attempted.
C9_RunVisitsEveryRow ==
    /\ \A u \in Users : bh.proc[u] <= 1
    /\ \A u \in Users : bh.proc[u] = 1 => u \in bh.enumerated
    /\ batch.phase = "idle" =>
            \A u \in bh.enumerated :
                /\ bh.proc[u] = 1
                /\ (bh.out[u] = "stored" /\ users[u].email # NULL) =>
                        bh.mail[u] # "none"
    /\ \A u \in Users :
            /\ bh.out[u] = "stored" =>
                    \E i \in DraftIds :
                        drafts[i] = [user_id |-> u, generated_content |-> "text",
                                     status |-> Pending,
                                     confirmation_token |-> bh.tok[u],
                                     posted_at |-> FALSE]
            /\ bh.mail[u] \in {"sent", "send_failed"} =>
                    \E m \in confirmMail : m.to = u /\ m.token = bh.tok[u]

C9_Witness ==
    /\ batch.phase = "idle"
    /\ bh.out["u1"] = "raised"
    /\ bh.out["u2"] = "stored"
    /\ bh.mail["u2"] = "sent"

\* C10: every confirmation mail handed to send_email carries the token of a
\* draft that is stored as pending_confirmation for the addressee, also when
\* the insert of the draft has failed.
C10_MailOnlyForStoredDraft ==
    \A m \in confirmMail :
        \E i \in DraftIds : /\ drafts[i].confirmation_token = m.token
                            /\ drafts[i].user_id = m.to
                            /\ drafts[i].status = Pending

\* the stored topics of u, as the run read them, are a list with an element
HadTopics(u) == bh.snap[u].topics \in {"[\"AI\"]", "[1]"}

WasEligible(u) == bh.snap[u].is_active /\ HadTopics(u)

RunDone == batch.phase = "idle" /\ bh.runs >= 1

\* C11: when a run of the batch job is over, every user that was active with a
\* non-empty topic list has exactly one new draft, pending_confirmation, with
\* the token issued for it, and one confirmation mail carrying that token has
\* been handed to send_email exactly when the user has an email address.
C11_RunDraftsEveryEligible ==
    RunDone =>
        \A u \in Users : WasEligible(u) =>
            /\ bh.tok[u] > 0
            /\ Cardinality({i \in DraftIds :
                    /\ drafts[i].user_id = u
                    /\ drafts[i].confirmation_token = bh.tok[u]
                    /\ drafts[i].status = Pending}) = 1
            /\ (users[u].email # NULL) <=>
                    (\E m \in confirmMail : m.to = u /\ m.token = bh.tok[u])
            /\ (users[u].email = NULL) => bh.mail[u] = "none"

\* C12: the batch job stores a draft and hands a confirmation mail to
\* send_email only for users that were active and had a non-empty topic list
\* when the run enumerated them; for every other user it does neither.
C12_OnlyEligibleGetDrafts ==
    /\ [](\A u \in Users : ~WasEligible(u) =>
            /\ bh.out[u] \in {"todo", "skipped"}
            /\ bh.tok[u] = 0
            /\ bh.mail[u] = "none")
    /\ [][/\ drafts' # drafts =>
                /\ Len(drafts') = Len(drafts) + 1
                /\ WasEligible(drafts'[Len(drafts')].user_id)
          /\ \A m \in confirmMail' \ confirmMail : WasEligible(m.to)]_vars

C12_Witness ==
    /\ RunDone
    /\ ~bh.snap["u1"].is_active /\ HadTopics("u1") /\ bh.out["u1"] = "todo"
    /\ bh.out["u2"] = "stored" /\ bh.mail["u2"] = "sent"
    /\ \A i \in DraftIds : drafts[i].user_id = "u2"

\* C13: no two drafts carry the same confirmation token, whatever tokens were
\* drawn, and the lookup by a token that was never issued finds no draft.
C13_TokensUnique ==
    /\ \A i, j \in DraftIds :
            i # j => drafts[i].confirmation_token # drafts[j].confirmation_token
    /\ \A t \in 0 .. issued + 1 :
            (t = 0 \/ t > issued) => ~get_content_by_confirmation_token(t).found

C13_Witness ==
    /\ Len(drafts) >= 1
    /\ \E u \in Users, i \in DraftIds :
            /\ bh.out[u] = "lost"
            /\ drafts[i].confirmation_token = bh.tok[u]
            /\ drafts[i].user_id # u

\* C14: drafts are append-only: no step removes a draft or changes the user or
\* the token of one, and a step that changes an existing draft is a step of a
\* confirm request for that draft.
C14_DraftsAppendOnly ==
    [][/\ Len(drafts') >= Len(drafts)
       /\ \A i \in DraftIds :
            /\ drafts'[i].user_id = drafts[i].user_id
            /\ drafts'[i].confirmation_token = drafts[i].confirmation_token
            /\ drafts'[i] # drafts[i] =>
                    \E r \in Requests : /\ req[r].pc # "idle"
                                        /\ req[r].rec.id = i
                                        /\ req'[r] # req[r]]_vars

\* C15: kickoff is total: for every list of topic strings (the empty list and
\* None among them), with or without a provider, whatever the provider
\* answers, it returns a non-empty text of at most 280 characters.
C15_KickoffTotal ==
    (crew.pc = "done" /\ AllStr(crew.user_topics.list)) =>
        /\ crew.result.kind = "text"
        /\ Len(crew.result.text) >= 1
        /\ Len(crew.result.text) <= 280

\* C16: a generated text longer than 280 characters, from the provider (its
\* answer once stripped of surrounding blanks) or from a template, is returned
\* as its first 277 characters followed by "...", 280 characters in all; a
\* text of at most 280 characters is returned as it is.
C16_TruncationLaw ==
    (crew.pc = "done" /\ crew.result.kind = "text") =>
        LET raw == crew.result.raw
            out == crew.result.text
        IN  IF Len(raw) > 280
            THEN /\ Len(out) = 280
                 /\ \A i \in 1 .. 277 : out[i] = raw[i]
                 /\ \A i \in 278 .. 280 : out[i] = "."
            ELSE out = raw

C16_Witness ==
    /\ crew.pc = "done" /\ crew.result.kind = "text"
    /\ crew.via = "provider"
    /\ Len(crew.result.raw) = 281
    /\ Len(crew.result.text) = 280
    /\ crew.result.text[280] = "."

\* C18: with a secret configured, a trigger request whose Authorization header
\* is not "Bearer <secret>" is answered unauthorized and starts no run of the
\* job; with no secret configured every request starts one.
C18_TriggerNeedsSecret ==
    cron.status # "none" =>
        IF cron.secret # NULL /\ cron.auth # [scheme |-> "Bearer", cred |-> cron.secret]
        THEN cron.status = "unauthorized" /\ ~cron.ran
        ELSE cron.status = "accepted" /\ cron.ran

\* C17: a repeat OAuth completion for a known account replaces the credential
\* pair and sets the active flag, and leaves the stored topics as they are and
\* the stored email as it is unless the session held a pending email, on
\* either backend.
C17_RepeatOAuthKeepsSettings ==
    [][\A b \in Browsers :
        (/\ web.call[b].pc = "oauth_write" /\ web.call[b].row # 0
         /\ reply'.n = web.call[b].n /\ reply'.status = "connected") =>
            LET c == web.call[b]
            IN  /\ accounts'[c.row].cred = c.cred
                /\ accounts'[c.row].is_active
                /\ accounts'[c.row].topics = accounts[c.row].topics
                /\ accounts'[c.row].email =
                        IF c.email = NULL THEN accounts[c.row].email ELSE c.email]_vars

\* C19: a settings request whose email, once stripped, is non-empty and not
\* of the shape local@domain.tld is answered "invalid" and changes nothing:
\* not the stored email, not the stored topics, not the session.
C19_InvalidEmailRejected ==
    /\ [](\A b \in Browsers :
            web.call[b].pc = "settings_topics" =>
                web.call[b].email \notin {"a@b", "a b@c.d"})
    /\ []((reply.route = "settings" /\ reply.email_in \in {"a@b", "a b@c.d"}) =>
            reply.status = "invalid_email" /\ reply.messages = <<>>)
    /\ [][(reply' # reply /\ reply'.route = "settings"
                /\ reply'.email_in \in {"a@b", "a b@c.d"}) =>
            /\ accounts' = accounts
            /\ sessions' = sessions
            /\ web'.call = web.call]_vars

C19_Witness ==
    /\ reply.route = "settings" /\ reply.status = "invalid_email"
    /\ reply.email_in = "a@b" /\ reply.topics_in = "[\"AI\"]"
    /\ reply.row # 0
    /\ accounts[reply.row].email # NULL

\* C20: whatever OAuth completions have run, and however they interleaved, no
\* two rows of the users table carry the same external account id.
C20_OneRowPerTwitterId ==
    \A i, j \in 1 .. Len(accounts) :
        i # j => accounts[i].twitter_id # accounts[j].twitter_id

C20_Witness ==
    /\ reply.route = "oauth" /\ reply.status = "not_saved" /\ reply.row = 0
    /\ Len(accounts) >= 1
    /\ \A b \in Browsers : sessions[b].user_db_id # 0 \/ b = reply.browser

\* a step that clears the active flag of a user leaves the rest of that row,
\* every other row and every draft as they were
FlagClearedOnly ==
    \A u \in Users :
        (users[u].is_active /\ ~users'[u].is_active) =>
            /\ users' = [users EXCEPT ![u].is_active = FALSE]
            /\ drafts' = drafts

\* C21: disconnect clears the user's active flag and removes neither the user
\* row nor a draft; from then on, until the account connects again, no step of
\* a batch run stores a draft for that user.
C21_DisconnectStopsDrafts ==
    [][/\ FlagClearedOnly
       /\ drafts' # drafts =>
            /\ Len(drafts') = Len(drafts) + 1
            /\ users[drafts'[Len(drafts')].user_id].is_active]_vars

\* C21 as amended: the same, for the batch runs that enumerate their users
\* after the disconnect: such a run does not take the user up at all, while a
\* run that enumerated the user before the disconnect may still store a draft.
C21_DisconnectStopsLaterRuns ==
    /\ [](\A u \in Users :
            (bh.runs >= 1 /\ ~bh.snap[u].is_active) =>
                u \notin bh.enumerated /\ bh.out[u] = "todo" /\ bh.tok[u] = 0)
    /\ [][/\ FlagClearedOnly
          /\ drafts' # drafts =>
               /\ Len(drafts') = Len(drafts) + 1
               /\ bh.snap[drafts'[Len(drafts')].user_id].is_active
               /\ drafts'[Len(drafts')].user_id \in bh.enumerated]_vars

C21_Witness ==
    /\ RunDone
    /\ ~users["u1"].is_active /\ ~bh.snap["u1"].is_active
    /\ users["u1"].topics = "[\"AI\"]" /\ users["u1"].email # NULL
    /\ Cardinality({i \in DraftIds : drafts[i].user_id = "u1"}) = 1
    /\ bh.out["u1"] = "todo"
    /\ bh.out["u2"] = "stored"

\* the outcomes a returned request has flashed
Outcomes(final) == {final.flashes[k].kind : k \in 1 .. Len(final.flashes)}

\* C22: a request that has called post_tweet makes exactly one status write,
\* to posted or to failed_to_post; a request answered "invalid" or "already
\* processed" makes none, and one answered "user inactive" makes the one write
\* to failed_user_inactive and no other.
C22_OneWritePerInvocation ==
    Returned =>
        /\ ret.pubs >= 1 =>
                /\ Len(ret.writes) = 1
                /\ ret.writes[1].status \in {Posted, FailedToPost}
        /\ (Outcomes(ret) \cap {"invalid", "already"} # {}) => ret.writes = <<>>
        /\ "inactive" \in Outcomes(ret) =>
                /\ Len(ret.writes) = 1
                /\ ret.writes[1].status = FailedUserInactive

\* the lookup of the returned request found a draft that was not pending
FoundProcessed(final) == final.rec.found /\ final.rec.status # Pending

\* C23: a request whose lookup reads a status other than pending_confirmation
\* changes no draft and no user, does not call post_tweet, writes nothing,
\* sends nothing, and is answered "already processed" with the status the
\* draft has.
C23_ProcessedDraftInert ==
    /\ [](\A r \in Requests : req[r].pc # "idle" => ~FoundProcessed(req[r]))
    /\ []((Returned /\ FoundProcessed(ret)) =>
            /\ ret.flashes = <<Flash("already", <<ret.rec.status>>)>>
            /\ ret.pubs = 0 /\ ret.mails = 0 /\ ret.writes = <<>>)
    /\ [][(received' # received /\ ret' # ret /\ FoundProcessed(ret')) =>
            /\ drafts' = drafts /\ users' = users
            /\ edges' = edges /\ confirmMail' = confirmMail
            /\ ret'.flashes[1].arg = <<drafts'[ret'.rec.id].status>>]_vars

C23_Witness ==
    /\ Returned /\ FoundProcessed(ret)
    /\ ret.nth = 2
    /\ ret.rec.status = Posted
    /\ drafts[ret.rec.id].status = Posted
    /\ hist[ret.rec.id].pubs = 1

\* C24: when the call that publishes raises an unexpected exception, the
\* request writes failed_to_post, which the draft then holds, and reports a
\* failure that carries the text of the exception; and no request that has
\* called post_tweet returns with its draft still pending_confirmation.
C24_PublishExceptionFails ==
    /\ (Returned /\ ret.pubs = 1 /\ ret.call.kind = "exception") =>
            /\ ret.writes = Only(FailedToPost)
            /\ Len(ret.flashes) = 1
            /\ ret.flashes[1].kind \in {"failed_other", "failed_permissions"}
            /\ \A k \in 1 .. Len(ret.call.text) :
                    Contains(ret.flashes[1].arg, ret.call.text[k])
    /\ (Returned /\ ret.pubs >= 1) => drafts[ret.rec.id].status # Pending

C24_Witness ==
    /\ Returned /\ ret.pubs = 1 /\ ret.call.kind = "exception"
    /\ ret.call.text = <<"boom">>
    /\ ret.flashes = <<Flash("failed_other", <<"An unexpected error occurred:", "boom">>)>>
    /\ drafts[ret.rec.id].status = FailedToPost

\* C25: every request returns with exactly one message flashed, which is one
\* of invalid, already processed, posted, failed for permissions, failed
\* otherwise, user inactive; no request flashes two.
C25_OneOutcomeMessage ==
    Returned =>
        /\ Len(ret.flashes) = 1
        /\ ret.flashes[1].kind \in
                {"invalid", "already", "posted", "failed_permissions",
                 "failed_other", "inactive"}

\* C26: every request received returns its redirect, whatever post_tweet and
\* the notifier do (a failure returned, an exception, a rendering error): none
\* of them leaves the handler as an unhandled exception.
C26_EveryRequestReturns ==
    \A r \in Requests : (req[r].pc # "idle") ~> (req[r].pc = "idle")

C26_Witness ==
    /\ Returned
    /\ ret.notify = "render_error"
    /\ ret.call.kind = "data"
    /\ \A r \in Requests : req[r].pc = "idle"
    /\ received = MaxRequests

\* the fixed sentence of line 130, returned as it is
FixedSentence == Generated(FallbackContent, FallbackContent)

\* C27: kickoff called with no topics (None or the empty list) returns the
\* fixed generic sentence and does not call the provider, with a provider
\* configured or without.
C27_NoTopicsFixedSentence ==
    (crew.pc = "done" /\ ~Truthy(crew.user_topics)) =>
        crew.result = FixedSentence /\ crew.calls = 0

\* C27 as amended: without a provider configured, kickoff called with no
\* topics returns the fixed generic sentence and calls no provider; with a
\* provider configured it calls the provider once, and returns the provider's
\* text, or the fixed sentence when the call has failed.
C27_NoTopicsWithoutProvider ==
    (crew.pc = "done" /\ ~Truthy(crew.user_topics)) =>
        IF crew.client = NULL
        THEN crew.result = FixedSentence /\ crew.calls = 0
        ELSE /\ crew.calls = 1
             /\ crew.via \in {"provider", "except"}
             /\ crew.via = "except" => crew.result = FixedSentence
             /\ crew.via = "provider" => crew.result.kind = "text"

C27_Witness ==
    /\ crew.pc = "done" /\ crew.client = NULL
    /\ crew.user_topics = TopicList(<<>>)
    /\ crew.result.text = FallbackContent
    /\ crew.calls = 0

\* the first three elements of a list, or all of them when there are fewer
FirstThree(list) == SubSeq(list, 1, IF Len(list) < 3 THEN Len(list) ELSE 3)

C29_KickoffGetsOwnTopics ==
    \A u \in Users :
        bh.arg[u].called =>
            /\ bh.arg[u].given
            /\ bh.arg[u].topics = json_loads(bh.snap[u].topics)
            /\ bh.arg[u].topics # <<>>

\* a step of a confirm request: received, gone on, or returned
ConfirmStep == req' # req \/ ret' # ret

\* C30: a step of a confirm request changes at most the status and posted_at
\* of the draft that carries the token of the request; the token, the text
\* and the owner of a draft never change, so that the token finds its draft in
\* every state, the terminal ones included; every other draft and every user
\* row stay as they were.
C30_ConfirmTouchesOneDraft ==
    /\ [](\A i \in DraftIds :
            LET found == get_content_by_confirmation_token(drafts[i].confirmation_token)
            IN  found.found /\ found.id = i)
    /\ [][ConfirmStep =>
            /\ users' = users
            /\ Len(drafts') = Len(drafts)
            /\ \A i \in DraftIds :
                    /\ drafts'[i].confirmation_token = drafts[i].confirmation_token
                    /\ drafts'[i].generated_content = drafts[i].generated_content
                    /\ drafts'[i].user_id = drafts[i].user_id
                    /\ drafts'[i] # drafts[i] =>
                            \E r \in Requests :
                                /\ req[r].pc # "idle" /\ req'[r] # req[r]
                                /\ req[r].token = drafts[i].confirmation_token]_vars

C30_Witness ==
    /\ Returned /\ ret.pubs = 1
    /\ Len(drafts) = 2
    /\ drafts[1] = [user_id |-> "u1", generated_content |-> "text", status |-> Posted,
                    confirmation_token |-> 1, posted_at |-> TRUE]
    /\ drafts[2] = [user_id |-> "u2", generated_content |-> "text", status |-> Pending,
                    confirmation_token |-> 2, posted_at |-> FALSE]
    /\ get_content_by_confirmation_token(1).found

\* C31: in every state a draft has its posted_at set exactly when its status
\* is posted.
C31_PostedAtIffPosted ==
    \A i \in DraftIds : drafts[i].posted_at <=> drafts[i].status = Posted

\* the status the store holds for the draft of a request agrees with what the
\* request has reported
Agrees(final, rows) ==
    /\ "posted" \in Outcomes(final) => rows[final.rec.id].status = Posted
    /\ (Outcomes(final) \cap {"failed_permissions", "failed_other"} # {}) =>
            rows[final.rec.id].status = FailedToPost
    /\ "inactive" \in Outcomes(final) => rows[final.rec.id].status = FailedUserInactive

\* C32: when a confirm request returns, the outcome it reports is the status
\* the store holds for its draft: posted when it reports the post,
\* failed_to_post when it reports a failure, failed_user_inactive when it
\* reports the inactive owner; this also when the status write has failed.
C32_ReportAgreesWithStore ==
    [][(ret' # ret /\ ret'.pc = "returned") => Agrees(ret', drafts')]_vars

\* C33: post_tweet is never called for a draft while the active flag of the
\* draft's owner is false, however confirm requests interleave with
\* disconnects, a disconnect between the lookup of a request and its call of
\* post_tweet included.
C33_NoPublishWhileInactive ==
    [][\A r \in Requests :
        (req[r].pc = "post" /\ req'[r].pubs = req[r].pubs + 1) =>
            users[drafts[req[r].rec.id].user_id].is_active]_vars

\* browser b's settings request is received in this step; the email it gives
ReceivesSettings(b) ==
    /\ web.call[b].pc = "idle" /\ web'.n = web.n + 1
    /\ \/ web'.call[b].pc = "settings_topics"
       \/ reply'.route = "settings" /\ reply'.browser = b /\ reply'.n = web'.n

GivenEmail(b) ==
    IF web'.call[b].pc = "settings_topics" THEN web'.call[b].email ELSE reply'.email_in

\* C34: a settings request changes only the fields it gives: without an email
\* key the stored email of every user stays as it is, and without a topics
\* key the stored topics stay as they are.
C34_OmittedFieldsKept ==
    [][\A b \in Browsers :
        /\ (ReceivesSettings(b) /\ GivenEmail(b) = AbsentEmail) =>
                \A i \in 1 .. Len(accounts) : accounts'[i].email = accounts[i].email
        /\ (web.call[b].pc = "settings_topics" /\ web.call[b].topics = "absent") =>
                \A i \in 1 .. Len(accounts) : accounts'[i].topics = accounts[i].topics]_vars

\* the answers of the settings route that carry "success": false
SettingsFailures ==
    {"no_data", "server_error", "invalid_email", "email_failed", "topics_failed"}

\* C35: a settings request answered with a failure has changed nothing: the
\* step that answers changes no row and no session, and no earlier step of the
\* request has changed a row, the email in particular when it is the topics
\* write that fails.
C35_FailedSettingsChangeNothing ==
    [][\A b \in Browsers :
        (/\ reply' # reply /\ reply'.route = "settings" /\ reply'.browser = b
         /\ reply'.status \in SettingsFailures) =>
            /\ accounts' = accounts
            /\ sessions' = sessions
            /\ ~web.call[b].changed]_vars

====
